---- MODULE Spec2Model ----
(***************************************************************************)
(* The agent IPC handlers of src/main/ipc/agent.ts: the run registry       *)
(* (activeRuns), the streaming session started by 'agent:invoke', the      *)
(* snapshot extractors of its loop body, 'agent:interrupt' and             *)
(* 'agent:cancel'.                                                         *)
(*                                                                         *)
(* JavaScript strings are sequences of one-character strings, so that      *)
(* length, concatenation and emptiness are computed and not assumed.       *)
(* A handler runs without interruption between two awaits: every action    *)
(* below is one such run-to-completion segment.                            *)
(***************************************************************************)
EXTENDS Naturals, Sequences, FiniteSets, TLC

\* Bounds of the model: the invocations of 'agent:invoke', the chunks the
\* runtime yields to all of them together, and the chunks it yields to the one
\* session of the extractor specification.
MaxSessions == 2
MaxPulls == 2
MaxChunks == 2

Threads == {"t1", "t2"}
Sessions == 1 .. MaxSessions

(***************************************************************************)
(* Raw values of a snapshot.  A field is absent (or null / falsy), of the  *)
(* expected collection shape, or some other truthy value.                  *)
(***************************************************************************)
Absent == [t |-> "absent", v |-> <<>>]
Other == [t |-> "other", v |-> <<>>]
List(v) == [t |-> "list", v |-> v]
Map(v) == [t |-> "map", v |-> v]
\* A null (or undefined) element of a collection.
Null == [null |-> TRUE]

StrContent(s) == [t |-> "string", s |-> s, blocks |-> <<>>]
BlockContent(b) == [t |-> "blocks", s |-> <<>>, blocks |-> b]
OtherContent == [t |-> "other", s |-> <<>>, blocks |-> <<>>]
TextBlock(s) == [null |-> FALSE, type |-> "text", text |-> s]
ImageBlock == [null |-> FALSE, type |-> "image", text |-> <<>>]
\* A block of another type that carries a text property.
DeltaBlock(s) == [null |-> FALSE, type |-> "text_delta", text |-> s]
\* id <<>> is a missing (or empty) id; tag "none" is an item without _getType.
Msg(id, tag, content) ==
    [null |-> FALSE, id |-> id, tag |-> tag, content |-> content,
     tool_calls |-> <<>>]

Digit == <<"0", "1", "2", "3", "4", "5", "6", "7", "8", "9">>
\* crypto.randomUUID(): the k-th identifier generated by session s, distinct
\* from every other generated identifier and from the runtime's identifiers.
randomUUID(s, k) == <<"u", Digit[s + 1], Digit[(k \div 10) + 1], Digit[(k % 10) + 1]>>

\* process.cwd()
cwd == <<"/">>

\* Mutant: one channel for every thread.
channelOfAll(threadId) == <<"agent:stream:", "t1">>

\* const channel = `agent:stream:${threadId}`
channel(threadId) == <<"agent:stream:", threadId>>

(***************************************************************************)
(* The loop body.  acc is what one snapshot has done so far: the events    *)
(* delivered (out), seenMessageIds (seen), the identifiers generated       *)
(* (uuid), and the stage at which an exception left the body (fault, with  *)
(* its cause: a TypeError of the body or a throwing send).                 *)
(***************************************************************************)
Throw(acc, stage, cause) == [acc EXCEPT !.fault = stage, !.cause = cause]

\* window.webContents.send(channel, event): throws once the window is destroyed.
Send(acc, stage, ev, ctx) ==
    IF ctx.alive
    THEN [acc EXCEPT !.out = Append(@, [channel |-> ctx.channel, event |-> ev])]
    ELSE Throw(acc, stage, "send")

Role(msg) ==
    IF msg.tag = "none" THEN "assistant"
    ELSE CASE msg.tag = "human" -> "user"
           [] msg.tag = "ai" -> "assistant"
           [] msg.tag = "system" -> "system"
           [] msg.tag = "tool" -> "tool"
           [] OTHER -> "assistant"

\* Mutant: the filter on block.type === 'text' is dropped.
RECURSIVE JoinAnyText(_)
JoinAnyText(blocks) ==
    IF blocks = <<>> THEN <<>>
    ELSE Head(blocks).text \o JoinAnyText(Tail(blocks))

\* .filter(block => block.type === 'text').map(block => block.text || '').join('')
RECURSIVE JoinText(_)
JoinText(blocks) ==
    IF blocks = <<>> THEN <<>>
    ELSE IF Head(blocks).type = "text"
         THEN Head(blocks).text \o JoinText(Tail(blocks))
         ELSE JoinText(Tail(blocks))

\* block.type on a null block is a TypeError.
ContentThrows(msg) ==
    /\ msg.content.t = "blocks"
    /\ \E i \in 1 .. Len(msg.content.blocks) : msg.content.blocks[i].null

Content(msg) ==
    IF msg.content.t = "string" THEN msg.content.s
    ELSE IF msg.content.t = "blocks" THEN JoinText(msg.content.blocks)
    ELSE <<>>

MessageEvent(msgId, role, content, msg) ==
    [type |-> "message",
     message |-> [id |-> msgId, role |-> role, content |-> content,
                  tool_calls |-> msg.tool_calls]]

\* Mutant: the content test is dropped from the emission guard.
EmitAnyAssistant(role, content) == role = "assistant"

\* if (role === 'assistant' && content)
EmitMessage(role, content) == role = "assistant" /\ content # <<>>

\* Mutant: the seen set is never consulted.
AlreadySentNever(msgId, acc) == FALSE

\* if (seenMessageIds.has(msgId)) continue
AlreadySent(msgId, acc) == msgId \in acc.seen

RECURSIVE MessagesLoop(_, _, _)
MessagesLoop(msgs, acc, ctx) ==
    IF msgs = <<>> \/ acc.fault # "none" THEN acc
    ELSE LET msg == Head(msgs) IN
         IF msg.null THEN Throw(acc, "messages", "TypeError")
         ELSE LET fresh == msg.id = <<>>
                  msgId == IF fresh THEN randomUUID(ctx.s, acc.uuid) ELSE msg.id
                  acc1 == IF fresh THEN [acc EXCEPT !.uuid = @ + 1] ELSE acc
              IN  IF AlreadySent(msgId, acc1)
                  THEN MessagesLoop(Tail(msgs), acc1, ctx)
                  ELSE IF ContentThrows(msg)
                  THEN Throw(acc1, "messages", "TypeError")
                  ELSE IF EmitMessage(Role(msg), Content(msg))
                  THEN MessagesLoop(Tail(msgs),
                          Send([acc1 EXCEPT !.seen = @ \cup {msgId}], "messages",
                               MessageEvent(msgId, Role(msg), Content(msg), msg),
                               ctx),
                          ctx)
                  ELSE MessagesLoop(Tail(msgs), acc1, ctx)

Messages(state, acc, ctx) ==
    IF acc.fault # "none" THEN acc
    ELSE IF state.messages.t = "list"
    THEN MessagesLoop(state.messages.v, acc, ctx)
    ELSE acc

\* x || d for strings
OrElse(x, d) == IF x = <<>> THEN d ELSE x

HasNull(items) == \E i \in 1 .. Len(items) : items[i].null

\* The number of elements of items[1..n] without an id.
RECURSIVE Missing(_, _)
Missing(items, n) ==
    IF n = 0 THEN 0
    ELSE Missing(items, n - 1) + (IF items[n].id = <<>> THEN 1 ELSE 0)

\* t.id || crypto.randomUUID(), for the i-th element of a mapped list.
IdOf(items, i, acc, ctx) ==
    IF items[i].id = <<>>
    THEN randomUUID(ctx.s, acc.uuid + Missing(items, i - 1))
    ELSE items[i].id

TodosEvent(items, acc, ctx) ==
    [type |-> "todos",
     todos |-> [i \in 1 .. Len(items) |->
                  [id |-> IdOf(items, i, acc, ctx),
                   content |-> OrElse(items[i].content, <<>>),
                   status |-> OrElse(items[i].status, <<"pending">>)]]]

\* Mutant: an empty todos list is skipped.
TodosPresentNonEmpty(state) == state.todos.t = "list" /\ Len(state.todos.v) > 0

\* if (state.todos && Array.isArray(state.todos))
TodosPresent(state) == state.todos.t = "list"

Todos(state, acc, ctx) ==
    IF acc.fault # "none" THEN acc
    ELSE IF TodosPresent(state)
    THEN IF HasNull(state.todos.v) THEN Throw(acc, "todos", "TypeError")
         ELSE Send([acc EXCEPT !.uuid = @ + Missing(state.todos.v, Len(state.todos.v))],
                   "todos", TodosEvent(state.todos.v, acc, ctx), ctx)
    ELSE acc

\* One entry of Object.entries(filesObj): data?.content tolerates a null value.
FileOfEntry(e) ==
    IF ~e.data.null /\ e.data.content.t = "string"
    THEN [path |-> e.path, is_dir |-> FALSE, size |-> Len(e.data.content.s)]
    ELSE [path |-> e.path, is_dir |-> FALSE]

FileOfItem(f) == [path |-> f.path, is_dir |-> f.is_dir, size |-> f.size]

WorkspaceEvent(files, state) ==
    [type |-> "workspace", files |-> files, path |-> OrElse(state.workspacePath, cwd)]

\* Mutant: the files.length > 0 guard is dropped.
NonEmptyFilesAlways(files) == TRUE

\* if (files.length > 0)
NonEmptyFiles(files) == Len(files) > 0

Workspace(state, acc, ctx) ==
    IF acc.fault # "none" THEN acc
    ELSE IF state.files.t = "map"
    THEN LET files == [i \in 1 .. Len(state.files.v) |-> FileOfEntry(state.files.v[i])]
         IN  IF NonEmptyFiles(files)
             THEN Send(acc, "workspace", WorkspaceEvent(files, state), ctx)
             ELSE acc
    ELSE IF state.files.t = "list"
    THEN LET files == state.files.v
         IN  IF NonEmptyFiles(files)
             THEN IF HasNull(files) THEN Throw(acc, "workspace", "TypeError")
                  ELSE Send(acc, "workspace",
                            WorkspaceEvent([i \in 1 .. Len(files) |-> FileOfItem(files[i])],
                                           state),
                            ctx)
             ELSE acc
    ELSE acc

SubagentsEvent(items, acc, ctx) ==
    [type |-> "subagents",
     subagents |-> [i \in 1 .. Len(items) |->
                      [id |-> IdOf(items, i, acc, ctx),
                       name |-> OrElse(items[i].name, OrElse(items[i].type, <<"Subagent">>)),
                       description |-> OrElse(items[i].description, <<>>),
                       status |-> OrElse(items[i].status, <<"pending">>)]]]

Subagents(state, acc, ctx) ==
    IF acc.fault # "none" THEN acc
    ELSE IF state.subagents.t = "list" /\ Len(state.subagents.v) > 0
    THEN IF HasNull(state.subagents.v) THEN Throw(acc, "subagents", "TypeError")
         ELSE Send([acc EXCEPT !.uuid = @ + Missing(state.subagents.v,
                                                    Len(state.subagents.v))],
                   "subagents", SubagentsEvent(state.subagents.v, acc, ctx), ctx)
    ELSE acc

InterruptEvent(interrupt, acc, ctx) ==
    [type |-> "interrupt",
     request |-> [id |-> IF interrupt.id = <<>>
                         THEN randomUUID(ctx.s, acc.uuid) ELSE interrupt.id,
                  tool_call |-> interrupt.tool_call,
                  allowed_decisions |-> <<"approve", "reject", "edit">>]]

Interrupt(state, acc, ctx) ==
    IF acc.fault # "none" THEN acc
    ELSE IF state.interrupt.t # "absent"
    THEN Send([acc EXCEPT !.uuid = @ + (IF state.interrupt.id = <<>> THEN 1 ELSE 0)],
              "interrupt", InterruptEvent(state.interrupt, acc, ctx), ctx)
    ELSE acc

\* Mutant: the todos step runs before the messages step.
ProcessChunkTodosFirst(state, acc, ctx) ==
    IF state.kind = "null" THEN Throw(acc, "messages", "TypeError")
    ELSE IF state.kind = "scalar" THEN acc
    ELSE Interrupt(state,
           Subagents(state,
             Workspace(state,
               Messages(state,
                 Todos(state, acc, ctx), ctx), ctx), ctx), ctx)

\* One iteration of the loop body past the abort check.  A null chunk throws at
\* state.messages; a chunk that is no object has no field and sends nothing.
ProcessChunk(state, acc, ctx) ==
    IF state.kind = "null" THEN Throw(acc, "messages", "TypeError")
    ELSE IF state.kind = "scalar" THEN acc
    ELSE Interrupt(state,
           Subagents(state,
             Workspace(state,
               Todos(state,
                 Messages(state, acc, ctx), ctx), ctx), ctx), ctx)

(***************************************************************************)
(* Snapshots the runtime may yield.                                        *)
(***************************************************************************)
NoInterrupt == [t |-> "absent", id |-> <<>>, tool_call |-> <<>>]
InterruptReq(id) == [t |-> "object", id |-> id, tool_call |-> <<"call">>]

Snap(messages, todos, files, subagents, interrupt) ==
    [kind |-> "object", messages |-> messages, todos |-> todos, files |-> files,
     subagents |-> subagents, interrupt |-> interrupt, workspacePath |-> <<>>]
\* A null chunk, and a chunk that is no object (a number): neither has a field.
NullSnap == [Snap(Absent, Absent, Absent, Absent, NoInterrupt) EXCEPT !.kind = "null"]
ScalarSnap == [Snap(Absent, Absent, Absent, Absent, NoInterrupt) EXCEPT !.kind = "scalar"]

Todo(id, content, status) == [null |-> FALSE, id |-> id, content |-> content, status |-> status]
FileData(content) == [null |-> FALSE, content |-> content]
Entry(path, data) == [path |-> path, data |-> data]
FileItem(path, isDir, size) == [null |-> FALSE, path |-> path, is_dir |-> isDir, size |-> size]
Subagent(id, name, type) ==
    [null |-> FALSE, id |-> id, name |-> name, type |-> type,
     description |-> <<>>, status |-> <<>>]

\* The snapshots of the session and registry specification: one that yields an
\* event of every kind, and one whose loop body throws.
CoreSnapshots ==
    { Snap(List(<<Msg(<<"m", "1">>, "ai", StrContent(<<"h", "i">>))>>),
           List(<<Todo(<<>>, <<"a">>, <<>>)>>),
           Map(<<Entry(<<"a">>, FileData(StrContent(<<"h", "i">>)))>>),
           List(<<Subagent(<<>>, <<>>, <<>>)>>), InterruptReq(<<"i", "1">>)),
      NullSnap }

\* The snapshots of the resume specification: with and without an interrupt.
ResumeSnapshots ==
    CoreSnapshots \cup
    { Snap(List(<<Msg(<<"m", "1">>, "ai", StrContent(<<"h", "i">>))>>),
           Absent, Absent, Absent, NoInterrupt) }

\* The message items, message lists and snapshots of the extractor specification.
MsgA == Msg(<<"m", "1">>, "ai", StrContent(<<"h", "i">>))
MsgB == Msg(<<"m", "1">>, "none",
            BlockContent(<<TextBlock(<<"a">>), ImageBlock, TextBlock(<<"b">>)>>))
MsgC == Msg(<<"m", "1">>, "ai", StrContent(<<>>))
MsgD == Msg(<<"m", "2">>, "tool", StrContent(<<"h", "i">>))
MsgE == Msg(<<"m", "2">>, "ai", BlockContent(<<ImageBlock, DeltaBlock(<<"z">>)>>))
MsgF == Msg(<<>>, "ai", StrContent(<<"x">>))
MsgG == Msg(<<"m", "2">>, "ai", StrContent(<<"y", "o">>))
MsgSingles ==
    { MsgA, MsgB, MsgC, MsgD, MsgE, MsgF, MsgG, Null,
      Msg(<<"m", "3">>, "human", StrContent(<<"h", "i">>)),
      Msg(<<"m", "3">>, "system", StrContent(<<"h", "i">>)),
      Msg(<<"m", "3">>, "generic", StrContent(<<"h", "i">>)),
      Msg(<<"m", "3">>, "ai", OtherContent),
      Msg(<<"m", "3">>, "ai", BlockContent(<<TextBlock(<<"a">>), Null>>)),
      Msg(<<"m", "3">>, "tool", BlockContent(<<TextBlock(<<>>)>>)) }
MsgLists ==
    {<<>>} \cup {<<m>> : m \in MsgSingles}
           \cup {<<MsgA, MsgA>>, <<MsgA, MsgB>>, <<MsgB, MsgA>>, <<MsgC, MsgA>>,
                 <<MsgA, MsgC>>, <<MsgF, MsgF>>, <<MsgA, MsgG>>, <<MsgG, MsgA>>,
                 <<MsgD, MsgE>>, <<Null, MsgA>>, <<MsgA, Null>>}

FileA == Entry(<<"a", ".", "t", "x", "t">>, FileData(StrContent(<<"h", "i">>)))
FileB == Entry(<<"b">>, FileData(OtherContent))
FileC == Entry(<<"c">>, Null)
FileD == Entry(<<"d">>, FileData(StrContent(<<>>)))
FileMaps ==
    { Map(<<>>), Map(<<FileA>>), Map(<<FileB>>), Map(<<FileC>>), Map(<<FileD>>),
      Map(<<FileA, FileB>>), Map(<<FileC, FileA>>) }
FileLists ==
    { List(<<>>), List(<<FileItem(<<"a">>, TRUE, 0)>>),
      List(<<FileItem(<<"a">>, FALSE, 2), FileItem(<<"b">>, TRUE, 0)>>),
      List(<<Null>>) }
TodoLists ==
    { Other, List(<<>>), List(<<Todo(<<>>, <<>>, <<>>)>>),
      List(<<Todo(<<"t", "1">>, <<"a">>, <<"d", "o", "n", "e">>), Todo(<<>>, <<"b">>, <<>>)>>),
      List(<<Null>>) }
SubagentLists ==
    { Other, List(<<>>), List(<<Subagent(<<>>, <<>>, <<>>)>>),
      List(<<Subagent(<<"s", "1">>, <<>>, <<"r">>), Subagent(<<>>, <<"n">>, <<"r">>)>>),
      List(<<Null>>) }
Interrupts == {InterruptReq(<<>>), InterruptReq(<<"i", "1">>)}

Snapshots ==
    {Snap(m, Absent, Absent, Absent, NoInterrupt) : m \in {List(l) : l \in MsgLists} \cup {Other}}
    \cup {Snap(Absent, t, Absent, Absent, NoInterrupt) : t \in TodoLists}
    \cup {Snap(Absent, Absent, f, Absent, NoInterrupt) : f \in FileMaps \cup FileLists \cup {Other}}
    \cup {Snap(Absent, Absent, Absent, a, NoInterrupt) : a \in SubagentLists}
    \cup {Snap(Absent, Absent, Absent, Absent, i) : i \in Interrupts}
    \cup {Snap(List(<<m>>), List(<<Todo(<<>>, <<"a">>, <<>>)>>), f,
               List(<<Subagent(<<>>, <<>>, <<>>)>>), InterruptReq(<<>>)) :
             m \in {MsgA, Null}, f \in {Map(<<>>), Map(<<FileA>>)}}
    \cup {NullSnap, ScalarSnap}

(***************************************************************************)
(* State.                                                                  *)
(*   activeRuns   the registry: thread -> the session whose AbortController*)
(*                is stored (0: no entry)                                  *)
(*   pc           where each invocation of the 'agent:invoke' handler is   *)
(*   thread       its threadId (kept once the invocation found its window) *)
(*   aborted      abortController.signal.aborted of its controller         *)
(*   abortedAt    the number of chunks it had pulled when its controller   *)
(*                was aborted ({}: never)                                  *)
(*   cancelledAt  the chunks it had processed and the events it had sent   *)
(*                when cancel was first called for its thread while it was *)
(*                in its stream loop ({}: never); kept by CancelObserved   *)
(*   window       whether the window of the renderer that sends the        *)
(*                requests still exists                                    *)
(*   sent         what it has delivered: channel, event and the number of  *)
(*                the chunk the event was derived from (0: none)           *)
(*   seenMessageIds, uuid   the session's seen set and generated ids       *)
(*   chunks       the chunks whose loop body ran; pulls counts every chunk *)
(*   fault        the stage and cause of the exception that ended it, and  *)
(*                what became of the error send its catch block attempted  *)
(*   paused       runtime: the thread's run is waiting for a decision      *)
(*   resumed      the last 'agent:interrupt' call and its outcome          *)
(***************************************************************************)
VARIABLES activeRuns, pc, thread, aborted, abortedAt, cancelledAt, window, sent,
          seenMessageIds, uuid, chunks, pulls, fault, paused, resumed

vars == <<activeRuns, pc, thread, aborted, abortedAt, cancelledAt, window, sent,
          seenMessageIds, uuid, chunks, pulls, fault, paused, resumed>>

NoFault == [stage |-> "none", cause |-> "none", errorSend |-> "none"]
NoResume == [called |-> FALSE]

Init ==
    /\ activeRuns = [t \in Threads |-> 0]
    /\ pc = [s \in Sessions |-> "idle"]
    /\ thread = [s \in Sessions |-> "t1"]
    /\ aborted = [s \in Sessions |-> FALSE]
    /\ abortedAt = [s \in Sessions |-> {}]
    /\ cancelledAt = [s \in Sessions |-> {}]
    /\ window = TRUE
    /\ sent = [s \in Sessions |-> <<>>]
    /\ seenMessageIds = [s \in Sessions |-> {}]
    /\ uuid = [s \in Sessions |-> 0]
    /\ chunks = [s \in Sessions |-> <<>>]
    /\ pulls = [s \in Sessions |-> 0]
    /\ fault = [s \in Sessions |-> NoFault]
    /\ paused = [t \in Threads |-> FALSE]
    /\ resumed = NoResume

\* A handler that ended has sent Done (Completed, Cancelled), has sent Error
\* (Errored), or was left by the exception of a send in its catch block (Aborted).
Running == {"creating", "opening", "streaming"}
Terminated == {"Completed", "Cancelled", "Errored", "Aborted"}

Stamp(s, ev) == [channel |-> channel(thread[s]), event |-> ev, chunk |-> 0]

\* Mutant: the entry is not deleted on termination.
FinallySkipped(s) == activeRuns

\* finally { activeRuns.delete(threadId) }
Finally(s) == [activeRuns EXCEPT ![thread[s]] = 0]

\* catch (error): send the error event, which throws again without a window.
Catch(s, log, stage, cause) ==
    /\ sent' = [sent EXCEPT ![s] =
                  IF window
                  THEN Append(log, Stamp(s, [type |-> "error", error |-> cause]))
                  ELSE log]
    /\ fault' = [fault EXCEPT ![s] =
                   [stage |-> stage, cause |-> cause,
                    errorSend |-> IF window THEN "sent" ELSE "threw"]]
    /\ pc' = [pc EXCEPT ![s] = IF window THEN "Errored" ELSE "Aborted"]
    /\ activeRuns' = Finally(s)

\* Mutant: a statement after the done send throws inside the try block, so the
\* catch block pushes an Error after the Done.
SendDoneThenThrow(s, state) ==
    /\ sent' = [sent EXCEPT ![s] =
                  @ \o <<Stamp(s, [type |-> "done", result |-> "null"]),
                         Stamp(s, [type |-> "error", error |-> "TypeError"])>>]
    /\ fault' = [fault EXCEPT ![s] =
                   [stage |-> "done", cause |-> "TypeError", errorSend |-> "sent"]]
    /\ pc' = [pc EXCEPT ![s] = "Errored"]
    /\ activeRuns' = Finally(s)

\* Send done event; a throwing send is caught by the catch block.
SendDone(s, state) ==
    IF window
    THEN /\ sent' = [sent EXCEPT ![s] =
                       Append(@, Stamp(s, [type |-> "done", result |-> "null"]))]
         /\ pc' = [pc EXCEPT ![s] = state]
         /\ activeRuns' = Finally(s)
         /\ UNCHANGED fault
    ELSE Catch(s, sent[s], "done", "send")

\* ipcMain.on('agent:invoke'): up to the first await; without a window the
\* handler returns.  Invocations are numbered in the order they arrive, and the
\* thread of the first one is called t1.
Invoke(s, t) ==
    /\ pc[s] = "idle"
    /\ \A r \in Sessions : r < s => pc[r] # "idle"
    /\ s = 1 => t = "t1"
    /\ IF window
       THEN /\ thread' = [thread EXCEPT ![s] = t]
            /\ activeRuns' = [activeRuns EXCEPT ![t] = s]
            /\ pc' = [pc EXCEPT ![s] = "creating"]
       ELSE /\ pc' = [pc EXCEPT ![s] = "NoWindow"]
            /\ UNCHANGED <<thread, activeRuns>>
    /\ UNCHANGED <<aborted, abortedAt, cancelledAt, window, sent, seenMessageIds, uuid, chunks, pulls,
                   fault, paused, resumed>>

\* await createAgentRuntime() resolves
RuntimeCreated(s) ==
    /\ pc[s] = "creating"
    /\ pc' = [pc EXCEPT ![s] = "opening"]
    /\ UNCHANGED <<activeRuns, thread, aborted, abortedAt, cancelledAt, window, sent, seenMessageIds, uuid,
                   chunks, pulls, fault, paused, resumed>>

\* await agent.stream(...) resolves
StreamOpened(s) ==
    /\ pc[s] = "opening"
    /\ pc' = [pc EXCEPT ![s] = "streaming"]
    /\ UNCHANGED <<activeRuns, thread, aborted, abortedAt, cancelledAt, window, sent, seenMessageIds, uuid,
                   chunks, pulls, fault, paused, resumed>>

\* createAgentRuntime(), agent.stream() or the stream's next() rejects
RuntimeThrows(s) ==
    /\ pc[s] \in Running
    /\ Catch(s, sent[s], pc[s], "runtime")
    /\ UNCHANGED <<thread, aborted, abortedAt, cancelledAt, window, seenMessageIds, uuid, chunks, pulls,
                   paused, resumed>>

RECURSIVE Sum(_, _)
Sum(f, n) == IF n = 0 THEN 0 ELSE f[n] + Sum(f, n - 1)

\* Mutant: the loop does not look at the signal.
AbortCheckMissing(s) == FALSE

\* if (abortController.signal.aborted) break
AbortCheck(s) == aborted[s]

\* The stream yields a chunk: the abort check, then the loop body.  Leaving the
\* loop by break or by an exception closes the stream, which is taken to resolve
\* at once: the done or error send and the finally block follow in this step.
PullChunk(s, state, budget) ==
    /\ pc[s] = "streaming"
    /\ Sum(pulls, MaxSessions) < budget
    /\ pulls' = [pulls EXCEPT ![s] = @ + 1]
    /\ paused' = IF state.kind = "object" /\ state.interrupt.t # "absent"
                 THEN [paused EXCEPT ![thread[s]] = TRUE] ELSE paused
    /\ IF AbortCheck(s)
       THEN /\ SendDone(s, "Cancelled")
            /\ UNCHANGED <<seenMessageIds, uuid, chunks>>
       ELSE LET ctx == [s |-> s, channel |-> channel(thread[s]), alive |-> window]
                acc == ProcessChunk(state,
                          [out |-> <<>>, seen |-> seenMessageIds[s], uuid |-> uuid[s],
                           fault |-> "none", cause |-> "none"], ctx)
                n == Len(chunks[s]) + 1
                log == sent[s] \o [i \in 1 .. Len(acc.out) |->
                                     [channel |-> acc.out[i].channel,
                                      event |-> acc.out[i].event, chunk |-> n]]
            IN  /\ chunks' = [chunks EXCEPT ![s] = Append(@, state)]
                /\ seenMessageIds' = [seenMessageIds EXCEPT ![s] = acc.seen]
                /\ uuid' = [uuid EXCEPT ![s] = acc.uuid]
                /\ IF acc.fault = "none"
                   THEN /\ sent' = [sent EXCEPT ![s] = log]
                        /\ UNCHANGED <<pc, activeRuns, fault>>
                   ELSE Catch(s, log, acc.fault, acc.cause)
    /\ UNCHANGED <<thread, aborted, abortedAt, cancelledAt, window, resumed>>

\* The stream is exhausted.
StreamEnds(s) ==
    /\ pc[s] = "streaming"
    /\ SendDone(s, IF aborted[s] THEN "Cancelled" ELSE "Completed")
    /\ UNCHANGED <<thread, aborted, abortedAt, cancelledAt, window, seenMessageIds, uuid, chunks, pulls,
                   paused, resumed>>

\* The stream hangs: the pull the for await loop is waiting for never settles,
\* so no statement of the handler runs again.
Hang(s) ==
    /\ pc[s] = "streaming"
    /\ pc' = [pc EXCEPT ![s] = "hung"]
    /\ UNCHANGED <<activeRuns, thread, aborted, abortedAt, cancelledAt, window, sent,
                   seenMessageIds, uuid, chunks, pulls, fault, paused, resumed>>

\* Mutant: cancel aborts the controller and leaves it in the registry.
CancelKeepsEntry(t) ==
    /\ IF activeRuns[t] # 0
       THEN /\ aborted' = [aborted EXCEPT ![activeRuns[t]] = TRUE]
            /\ abortedAt' = [abortedAt EXCEPT ![activeRuns[t]] = {pulls[activeRuns[t]]}]
            /\ UNCHANGED activeRuns
       ELSE UNCHANGED <<aborted, abortedAt, activeRuns>>
    /\ UNCHANGED <<pc, thread, cancelledAt, window, sent, seenMessageIds, uuid, chunks,
                   pulls, fault, paused, resumed>>

\* Mutant: cancel deletes the entry and does not abort its controller.
CancelDeletesOnly(t) ==
    /\ activeRuns' = [activeRuns EXCEPT ![t] = 0]
    /\ UNCHANGED <<aborted, abortedAt, pc, thread, cancelledAt, window, sent,
                   seenMessageIds, uuid, chunks, pulls, fault, paused, resumed>>

\* const controller = activeRuns.get(threadId)
\* if (controller) { controller.abort(); activeRuns.delete(threadId) }
AbortRun(t) ==
    /\ IF activeRuns[t] # 0
       THEN /\ aborted' = [aborted EXCEPT ![activeRuns[t]] = TRUE]
            /\ abortedAt' = [abortedAt EXCEPT ![activeRuns[t]] = {pulls[activeRuns[t]]}]
            /\ activeRuns' = [activeRuns EXCEPT ![t] = 0]
       ELSE UNCHANGED <<aborted, abortedAt, activeRuns>>
    /\ UNCHANGED <<pc, thread, window, sent, seenMessageIds, uuid, chunks, pulls,
                   fault, paused, resumed>>

\* ipcMain.handle('agent:cancel')
Cancel(t) == AbortRun(t) /\ UNCHANGED cancelledAt

\* The same handler with the history of its calls: every session of thread t
\* that is in its stream loop when cancel(t) is first called notes how many
\* chunks it has processed and how many events it has sent.
CancelObserved(t) ==
    /\ AbortRun(t)
    /\ cancelledAt' =
           [s \in Sessions |->
               IF thread[s] = t /\ pc[s] = "streaming" /\ cancelledAt[s] = {}
               THEN {[chunks |-> Len(chunks[s]), sent |-> Len(sent[s])]}
               ELSE cancelledAt[s]]

\* The window is closed, while a handler can still see it.
CloseWindow ==
    /\ window
    /\ \E s \in Sessions : pc[s] \in Running \cup {"idle"}
    /\ window' = FALSE
    /\ UNCHANGED <<activeRuns, pc, thread, aborted, abortedAt, cancelledAt, sent, seenMessageIds, uuid,
                   chunks, pulls, fault, paused, resumed>>

\* ipcMain.handle('agent:interrupt').  The runtime decides whether
\* createAgentRuntime() and agent.invoke(null, config) resolve or reject; the
\* handler's promise resolves (the caller sees success) unless one of them rejects.
Resume(t, decision, runtime) ==
    /\ runtime \in {"resolves", "createRejects", "invokeRejects"}
    /\ runtime = "invokeRejects" => decision = "approve"
    /\ LET invoked == decision = "approve" /\ runtime # "createRejects"
           ok == runtime = "resolves"
       IN  /\ resumed' = [called |-> TRUE, thread |-> t, decision |-> decision,
                          pending |-> paused[t],
                          command |-> IF invoked THEN "invoke(null)" ELSE "none",
                          result |-> IF ok THEN "ok" ELSE "failed",
                          paused |-> IF invoked /\ ok THEN FALSE ELSE paused[t]]
           /\ paused' = IF invoked /\ ok THEN [paused EXCEPT ![t] = FALSE] ELSE paused
    /\ UNCHANGED <<activeRuns, pc, thread, aborted, abortedAt, cancelledAt, window, sent,
                   seenMessageIds, uuid, chunks, pulls, fault>>

Decisions == {"approve", "reject", "edit"}

\* The handlers and the runtime's steps, for the sessions SS on the threads TT
\* with the runtime yielding at most budget chunks, each one of snaps.
Handlers(SS, TT, snaps, budget) ==
    \/ \E s \in SS, t \in TT : Invoke(s, t)
    \/ \E s \in SS : RuntimeCreated(s)
    \/ \E s \in SS : StreamOpened(s)
    \/ \E s \in SS : RuntimeThrows(s)
    \/ \E s \in SS, state \in snaps : PullChunk(s, state, budget)
    \/ \E s \in SS : StreamEnds(s)
    \/ \E t \in TT : Cancel(t)
    \/ CloseWindow

\* Sessions, registry and cancellation.
Next == Handlers(Sessions, Threads, CoreSnapshots, MaxPulls)

Spec == Init /\ [][Next]_vars

\* One session, not cancelled, whose runtime does not reject, over every
\* snapshot shape: the extractors.
ExtractNext ==
    \/ Invoke(1, "t1")
    \/ RuntimeCreated(1)
    \/ StreamOpened(1)
    \/ \E state \in Snapshots : PullChunk(1, state, MaxChunks)
    \/ StreamEnds(1)
    \/ CloseWindow

ExtractSpec == Init /\ [][ExtractNext]_vars

\* One session and the 'agent:interrupt' handler.
ResumeNext ==
    \/ Handlers({1}, Threads, ResumeSnapshots, MaxPulls)
    \/ \E t \in Threads, d \in Decisions,
          r \in {"resolves", "createRejects", "invokeRejects"} : Resume(t, d, r)

ResumeSpec == Init /\ [][ResumeNext]_vars

\* Sessions, registry and cancellation, with the history of the cancel calls.
ObservedNext ==
    \/ \E s \in Sessions, t \in Threads : Invoke(s, t)
    \/ \E s \in Sessions : RuntimeCreated(s)
    \/ \E s \in Sessions : StreamOpened(s)
    \/ \E s \in Sessions : RuntimeThrows(s)
    \/ \E s \in Sessions, state \in CoreSnapshots : PullChunk(s, state, MaxPulls)
    \/ \E s \in Sessions : StreamEnds(s)
    \/ \E t \in Threads : CancelObserved(t)
    \/ CloseWindow

ObservedSpec == Init /\ [][ObservedNext]_vars

\* One session whose stream may hang.
HangNext ==
    \/ Handlers({1}, Threads, ResumeSnapshots, MaxPulls)
    \/ Hang(1)

HangSpec == Init /\ [][HangNext]_vars

(***************************************************************************)
(* Properties.                                                             *)
(***************************************************************************)
Types(s) == [i \in 1 .. Len(sent[s]) |-> sent[s][i].event.type]
Count(s, type) == Cardinality({i \in 1 .. Len(sent[s]) : Types(s)[i] = type})
TerminalTypes == {"done", "error"}
DataTypes == {"message", "todos", "workspace", "subagents", "interrupt"}
Terminals(s) == Count(s, "done") + Count(s, "error")
Finished == Terminated \cup {"NoWindow"}

\* C1 as stated: every invocation that has finished has pushed exactly one
\* terminal event, Done or Error, and a terminal event is the last event pushed.
C1_ExactlyOneTerminal ==
    \A s \in Sessions :
        /\ \A i \in 1 .. Len(sent[s]) :
               Types(s)[i] \in TerminalTypes => i = Len(sent[s])
        /\ pc[s] \in Finished => Terminals(s) = 1

\* C1 amended: a session pushes at most one terminal event and nothing after
\* it; a handler that ended has pushed exactly one (Done when Completed or
\* Cancelled, Error when Errored) unless it had no window at invoke or its window
\* was destroyed before its terminal event was sent, and then it has pushed none.
C1_TerminalExclusive ==
    \A s \in Sessions :
        /\ \A i \in 1 .. Len(sent[s]) :
               Types(s)[i] \in TerminalTypes => i = Len(sent[s]) /\ pc[s] \in Terminated
        /\ Terminals(s) <= 1
        /\ pc[s] \in {"Completed", "Cancelled"} => Count(s, "done") = 1
        /\ pc[s] = "Errored" => Count(s, "error") = 1
        /\ pc[s] \in {"NoWindow", "Aborted"} => Terminals(s) = 0 /\ ~window

\* A session that pushed data events and then its one terminal event.
C1_Witness ==
    \E s \in Sessions :
        /\ pc[s] \in Terminated
        /\ Len(sent[s]) >= 2
        /\ Types(s)[Len(sent[s])] \in TerminalTypes
        /\ Types(s)[1] \in DataTypes

\* The token was signalled before the first chunk was pulled.
CancelledEarly(s) == abortedAt[s] = {0}

\* C3 as stated: a session cancelled before its first pull pushes no data event
\* and, once terminated, has pushed exactly one Done event.
C3_CancelledEarlyDone ==
    \A s \in Sessions :
        CancelledEarly(s) =>
            /\ \A i \in 1 .. Len(sent[s]) : Types(s)[i] \notin DataTypes
            /\ pc[s] \in Terminated => Count(s, "done") = 1

\* C3 amended: a session cancelled before its first pull runs no loop body and
\* pushes no data event; when its handler has ended it has pushed exactly one
\* event: Done, or Error if createAgentRuntime, agent.stream or the pull
\* rejected; it has pushed nothing if the window was destroyed by then.
C3_CancelledEarly ==
    \A s \in Sessions :
        CancelledEarly(s) =>
            /\ \A i \in 1 .. Len(sent[s]) : Types(s)[i] \notin DataTypes
            /\ chunks[s] = <<>>
            /\ pc[s] \in Terminated =>
                   Types(s) = IF pc[s] = "Aborted" THEN <<>>
                              ELSE IF fault[s].cause = "runtime" THEN <<"error">>
                              ELSE <<"done">>
            /\ pc[s] = "Aborted" => ~window

\* Cancelled while the runtime was being created, a chunk was pulled, Done pushed.
C3_Witness ==
    \E s \in Sessions :
        /\ CancelledEarly(s)
        /\ pc[s] = "Cancelled"
        /\ pulls[s] = 1
        /\ Types(s) = <<"done">>

\* C4: every controller stored in the registry is un-aborted.
C4_NoSignalledTokenStored ==
    \A t \in Threads : activeRuns[t] # 0 => ~aborted[activeRuns[t]]

\* A thread whose earlier run was cancelled and which has a new run registered.
C4_Witness ==
    \E s, r \in Sessions :
        /\ aborted[s]
        /\ thread[r] = thread[s]
        /\ activeRuns[thread[s]] = r
        /\ pc[s] \in Running

\* C5: the registry does not hold the controller of a terminated session.
C5_RegistryCleared ==
    \A s \in Sessions : pc[s] \in Terminated => activeRuns[thread[s]] # s

\* A session that faulted while the runtime was created, one that was cancelled
\* and one that completed.
C5_Witness ==
    \E s \in Sessions :
        /\ pc[s] = "Errored"
        /\ fault[s].stage = "creating"
        /\ activeRuns[thread[s]] = 0

\* C6 as stated: two sessions of one thread are never both Streaming with
\* un-cancelled tokens.
C6_OneLiveRunPerThread ==
    \A s, r \in Sessions :
        s # r /\ thread[s] = thread[r] =>
            ~(/\ pc[s] = "streaming" /\ pc[r] = "streaming"
              /\ ~aborted[s] /\ ~aborted[r])

\* The session registered last for thread t (0: none).
Latest(t) ==
    LET ss == {s \in Sessions : thread[s] = t /\ pc[s] \in Running \cup Terminated}
    IN  IF ss = {} THEN 0 ELSE CHOOSE s \in ss : \A r \in ss : r <= s

\* C7 as stated: while the session registered last for a thread is running and
\* cancel has not signalled its token, the registry holds its controller.
C7_HandleStaysRegistered ==
    \A t \in Threads :
        LET s == Latest(t)
        IN  s # 0 /\ pc[s] \in Running /\ ~aborted[s] => activeRuns[t] = s

\* The events session s derived from its n-th processed chunk, by type.
EventsOf(s, n, type) ==
    SelectSeq(sent[s], LAMBDA e : e.chunk = n /\ e.event.type = type)

\* C8 as stated: a resume for a thread with no pending interrupt, and for which
\* no Interrupt event was ever pushed, reports failure.
C8_ResumeWithoutPauseFails ==
    (/\ resumed.called
     /\ ~resumed.pending
     /\ \A s \in Sessions :
            thread[s] = resumed.thread => Count(s, "interrupt") = 0)
        => resumed.result = "failed"

\* C2: the ids of the Message events a session has pushed are pairwise distinct.
C2_MessageIdsDistinct ==
    \A s \in Sessions :
        \A i, j \in 1 .. Len(sent[s]) :
            (/\ i < j
             /\ Types(s)[i] = "message"
             /\ Types(s)[j] = "message")
                => sent[s][i].event.message.id # sent[s][j].event.message.id

\* Two chunks, each holding the same id twice with content to send: one event.
C2_Witness ==
    /\ Len(chunks[1]) = 2
    /\ chunks[1][1].messages = List(<<MsgA, MsgB>>)
    /\ chunks[1][2].messages = List(<<MsgB, MsgA>>)
    /\ Count(1, "message") = 1

SuppressedTags == {"human", "system", "tool"}

\* C9: every Message event has role assistant and non-empty content and comes
\* from an item of its chunk whose tag is none of human, system, tool and whose
\* content extracts to that non-empty string; a chunk whose only message has a
\* suppressed tag or empty content yields no Message event.
C9_EmissionFilter ==
    \A s \in Sessions :
        /\ \A i \in 1 .. Len(sent[s]) :
               Types(s)[i] = "message" =>
                   LET m == sent[s][i].event.message
                       items == chunks[s][sent[s][i].chunk].messages.v
                   IN  /\ m.role = "assistant"
                       /\ m.content # <<>>
                       /\ \E k \in 1 .. Len(items) :
                              /\ ~items[k].null
                              /\ items[k].tag \notin SuppressedTags
                              /\ items[k].id \in {m.id, <<>>}
                              /\ Content(items[k]) = m.content
        /\ \A n \in 1 .. Len(chunks[s]) :
               LET c == chunks[s][n]
               IN  (/\ c.kind = "object"
                    /\ c.messages.t = "list"
                    /\ Len(c.messages.v) = 1
                    /\ ~c.messages.v[1].null
                    /\ ~ContentThrows(c.messages.v[1])
                    /\ \/ c.messages.v[1].tag \in SuppressedTags
                       \/ Content(c.messages.v[1]) = <<>>)
                       => EventsOf(s, n, "message") = <<>>

\* A chunk whose only message is a tool message, then one with an empty
\* assistant message, then the stream ended: no Message event.
C9_Witness ==
    /\ Len(chunks[1]) = 2
    /\ chunks[1][1].messages = List(<<MsgD>>)
    /\ chunks[1][2].messages = List(<<MsgC>>)
    /\ Types(1) = <<"done">>

\* The loop body of session s ran the workspace step of its n-th chunk to its end.
WorkspaceRan(s, n) ==
    \/ n < Len(chunks[s])
    \/ fault[s].stage \notin {"messages", "todos", "workspace"}

\* The FileEntry the spec gives for one entry of the mapping.
ExpectedFile(e) ==
    IF ~e.data.null /\ e.data.content.t = "string"
    THEN [path |-> e.path, is_dir |-> FALSE, size |-> Len(e.data.content.s)]
    ELSE [path |-> e.path, is_dir |-> FALSE]

RefText(b) == IF b.type = "text" THEN b.text ELSE <<>>

RECURSIVE RefConcat(_, _)
RefConcat(blocks, n) ==
    IF n = 0 THEN <<>> ELSE RefConcat(blocks, n - 1) \o RefText(blocks[n])

RefContent(c) ==
    CASE c.t = "string" -> c.s
      [] c.t = "blocks" -> RefConcat(c.blocks, Len(c.blocks))
      [] OTHER -> <<>>

\* The messages step of the n-th chunk of session s was not left by an exception.
MessagesRan(s, n) == n < Len(chunks[s]) \/ fault[s].stage # "messages"

C12_CancelIdempotent ==
    [][\A t \in Threads :
          Cancel(t) =>
              IF activeRuns[t] = 0
              THEN UNCHANGED <<activeRuns, aborted, sent, pc>>
              ELSE /\ aborted'[activeRuns[t]]
                   /\ activeRuns'[t] = 0
                   /\ \A u \in Threads \ {t} : activeRuns'[u] = activeRuns[u]
                   /\ \A s \in Sessions \ {activeRuns[t]} : aborted'[s] = aborted[s]
                   /\ UNCHANGED <<sent, pc>>]_vars

\* A running session whose token cancel has signalled and whose entry it has
\* removed, next to a finished session of the other thread.
C12_Witness ==
    \E s, r \in Sessions :
        /\ aborted[s]
        /\ pc[s] \in Running
        /\ activeRuns[thread[s]] = 0
        /\ thread[r] # thread[s]
        /\ pc[r] \in Terminated
        /\ ~aborted[r]

\* C13 as stated: every event of a session, its terminal event included, was
\* sent on the channel agent-stream:<threadId> of the session's own thread.
C13_AgentDashStream ==
    \A s \in Sessions :
        \A i \in 1 .. Len(sent[s]) : sent[s][i].channel = <<"agent-stream:", thread[s]>>

\* C13 amended: every event of a session, its terminal event included, was sent
\* on the channel agent:stream:<threadId> of the session's own thread.
C13_OwnChannel ==
    \A s \in Sessions :
        \A i \in 1 .. Len(sent[s]) : sent[s][i].channel = <<"agent:stream:", thread[s]>>

\* Sessions of two threads, each with data events and its terminal event.
C13_Witness ==
    \E s, r \in Sessions :
        /\ thread[s] = "t1" /\ thread[r] = "t2"
        /\ pc[s] \in Terminated /\ pc[r] \in Terminated
        /\ Len(sent[s]) >= 2 /\ Len(sent[r]) >= 2
        /\ Types(s)[Len(sent[s])] \in TerminalTypes
        /\ Types(r)[Len(sent[r])] \in TerminalTypes

\* The place of an event type in the order of one snapshot's events.
Rank(type) ==
    CASE type = "message" -> 1
      [] type = "todos" -> 2
      [] type = "workspace" -> 3
      [] type = "subagents" -> 4
      [] type = "interrupt" -> 5
      [] OTHER -> 6

\* Event m is the Message event of the k-th item of items.
FromItem(m, items, k) ==
    /\ ~items[k].null
    /\ items[k].id \in {m.id, <<>>}
    /\ RefContent(items[k].content) = m.content

\* C14: in the events of a session, the events of an earlier snapshot all come
\* before the events of a later one; the events of one snapshot come in the
\* order Message, Todos, Workspace, Subagents, Interrupt, with at most one event
\* of each of the last four; and the Message events of one snapshot come in the
\* order of their items in the snapshot's list.
C14_EventOrder ==
    \A s \in Sessions :
        \A i, j \in 1 .. Len(sent[s]) :
            (i < j /\ Types(s)[j] \in DataTypes) =>
                /\ Types(s)[i] \in DataTypes
                /\ sent[s][i].chunk <= sent[s][j].chunk
                /\ sent[s][i].chunk = sent[s][j].chunk =>
                       /\ Rank(Types(s)[i]) <= Rank(Types(s)[j])
                       /\ Rank(Types(s)[i]) = Rank(Types(s)[j]) =>
                              /\ Types(s)[i] = "message"
                              /\ LET items == chunks[s][sent[s][i].chunk].messages.v
                                 IN  \E k, l \in 1 .. Len(items) :
                                         /\ k < l
                                         /\ FromItem(sent[s][i].event.message, items, k)
                                         /\ FromItem(sent[s][j].event.message, items, l)

\* A snapshot gave one event of every kind, and the next one a new message.
C14_Witness ==
    /\ Len(chunks[1]) = 2
    /\ chunks[1][2].messages = List(<<MsgG, MsgA>>)
    /\ Types(1) = <<"message", "todos", "workspace", "subagents", "interrupt",
                    "message">>
    /\ [i \in 1 .. 6 |-> sent[1][i].chunk] = <<1, 1, 1, 1, 1, 2>>

\* C15 as stated, for the sessions whose runtime has not rejected: a session
\* that was in its stream loop when cancel was called for its thread processes
\* no snapshot afterwards and pushes no further data event, and the next event
\* it pushes is Done.
C15_CancelStopsStreaming ==
    \A s \in Sessions :
        \A c \in cancelledAt[s] :
            fault[s].cause # "runtime" =>
                /\ Len(chunks[s]) = c.chunks
                /\ \A i \in (c.sent + 1) .. Len(sent[s]) : Types(s)[i] \notin DataTypes
                /\ Len(sent[s]) > c.sent => Types(s)[c.sent + 1] = "done"

\* C16 as stated: the loop body faults on no snapshot, whatever its shape:
\* no session is ended by a TypeError of its loop body, and a session whose
\* runtime did not reject has pushed no Error event.
C16_ExtractionTotal ==
    \A s \in Sessions :
        /\ fault[s].cause # "TypeError"
        /\ fault[s].cause # "runtime" => Count(s, "error") = 0

\* The loop body of session s ran the todos step of its n-th chunk to its end.
TodosRan(s, n) == n < Len(chunks[s]) \/ fault[s].stage \notin {"messages", "todos"}

\* Todo d is what the spec gives for item t of the todos list.
ExpectedTodo(d, t) ==
    /\ d.content = t.content
    /\ d.status = IF t.status = <<>> THEN <<"pending">> ELSE t.status
    /\ IF t.id = <<>> THEN d.id # <<>> ELSE d.id = t.id

\* The one Todos event of the n-th chunk of session s holds one Todo per item
\* of the chunk's todos list, in the order of the list.
OneTodosEvent(s, n) ==
    LET evs == EventsOf(s, n, "todos")
        v == chunks[s][n].todos.v
    IN  /\ Len(evs) = 1
        /\ Len(evs[1].event.todos) = Len(v)
        /\ \A i \in 1 .. Len(v) : ExpectedTodo(evs[1].event.todos[i], v[i])

ExpectedCommand(decision) ==
    CASE decision = "approve" -> "invoke(null)"
      [] decision = "reject" -> "cancel tool call and resume"
      [] decision = "edit" -> "update args and resume"

\* C18 as stated: a resume that found a pending interrupt and reported success
\* has issued the runtime command of its decision (approve: resume unchanged,
\* reject: cancel the tool call, edit: overwrite the arguments and resume), and
\* has not left the run paused.
C18_EveryDecisionResumes ==
    (resumed.called /\ resumed.pending /\ resumed.result = "ok") =>
        /\ resumed.command = ExpectedCommand(resumed.decision)
        /\ ~resumed.paused
        /\ ~paused[resumed.thread]

\* Session s takes a step that ends its wait for the stream.
LeavesHang(s) == HangNext /\ pc[s] = "hung" /\ pc'[s] # "hung"

\* C19 as stated, as far as a finite run shows it: a session whose stream is
\* hung and whose token cancel has signalled can take a step that ends
\* its wait (without such a step it never leaves Streaming and never pushes its
\* terminal event).
C19_CancelEndsHang ==
    \A s \in Sessions :
        (pc[s] = "hung" /\ aborted[s]) => ENABLED LeavesHang(s)

\* C20 as stated: a session without recipient, at invoke or when one of its
\* sends fails, attempts no further event, in particular no Error event, and
\* the registry holds no controller of it afterwards.
C20_NoSendWithoutRecipient ==
    \A s \in Sessions :
        /\ pc[s] = "NoWindow" =>
               /\ sent[s] = <<>>
               /\ fault[s].errorSend = "none"
               /\ \A t \in Threads : activeRuns[t] # s
        /\ fault[s].cause = "send" =>
               /\ fault[s].errorSend = "none"
               /\ activeRuns[thread[s]] # s

====
